---- MODULE Spec2Model ----
(***************************************************************************)
(* Model of the HTTP handlers of the AI text humanizer / detector API.     *)
(*                                                                         *)
(* The repository holds five revisions of the service:                     *)
(*   "smart"   src/unnamed/part_000            bucketed /detect aggregator *)
(*   "avg"     src/server.js, lines 1-246      averaged, clipped to 10..95 *)
(*   "strict"  src/server.js, lines 247-498    averaged, thresholds 75/45  *)
(*   "first"   src/unnamed/part_001, 1-132     /humanize only              *)
(*   "single"  src/unnamed/part_001, 133-291   /detect in one provider call*)
(* A deployment runs one revision (variable rev); a request is handled in  *)
(* steps that are cut at the handler's awaits on the completion provider.  *)
(*                                                                         *)
(* Texts are sequences of pieces: WS is one whitespace character, TERM one *)
(* of the characters . ! ? and every other piece is a run of words that    *)
(* are separated by single spaces and hold no terminator (PieceWords words *)
(* in PieceLen characters): "s" is three words in 12 characters, "B198"    *)
(* and "B798" are 198 and 798 words.                                       *)
(***************************************************************************)
EXTENDS Integers, Sequences, FiniteSets, TLC

VARIABLES
    rev,            \* the revision deployed
    pc,             \* where the handler of the request stands
    route,          \* the route of the request: "humanize" or "detect"
    body,           \* req.body
    wordCount,      \* const wordCount (const words in the avg revision)
    sentences,      \* const sentences of /detect
    results,        \* const results of /detect
    aiHeavy,        \* let aiHeavy
    mixed,          \* let mixed
    human,          \* let human
    totalAI,        \* let totalAI of the strict revision
    calls,          \* how often openai.responses.create was invoked
    inputs,         \* the input of every invocation, in order
    providerFailed, \* per classified sentence: the call or the parse threw
    output,         \* let output of /humanize, before the noise injection
    res             \* the responses sent, in order

vars == <<rev, pc, route, body, wordCount, sentences, results,
          aiHeavy, mixed, human, totalAI, calls, inputs, providerFailed,
          output, res>>

----------------------------------------------------------------------------
(* Bounds of the model *)

\* longest request text of the full specification, in pieces
MaxPieces == 5
\* longest tail after a bulk run in the texts around the word limits
MaxTail == 2
\* most sentences of a request of the aggregator specification
MaxSent == 5
\* most stretches of a request text of the loop specification
MaxLoop == 3
\* atoms in a text the provider of /humanize answers with
MaxNoise == 6

----------------------------------------------------------------------------
(* JavaScript values that are not numbers of the model.  Every number the  *)
(* model computes with is >= 0; the three values below stand for NaN,      *)
(* undefined and (in a JSON body) null.                                    *)

NaN == -1
undefined == -2
null == -3

IsNum(x) == x >= 0

\* x >= n and x < n of JavaScript: false when x is NaN or undefined
GE(x, n) == IsNum(x) /\ x >= n
LT(x, n) == IsNum(x) /\ x < n

\* a + b and a - b on numbers, NaN when an operand is NaN or undefined
Plus(a, b) == IF IsNum(a) /\ IsNum(b) THEN a + b ELSE NaN
Minus(a, b) == IF IsNum(a) /\ IsNum(b) THEN a - b ELSE NaN

\* Math.round(n / d) for n >= 0: the nearest integer, halves upwards; 0/0 and
\* NaN/d are NaN
RoundDiv(n, d) ==
    IF ~IsNum(n) \/ d = 0 THEN NaN ELSE (2 * n + d) \div (2 * d)

\* Math.min(a, b)
Min(a, b) == IF a < b THEN a ELSE b

\* JSON.stringify of a number: NaN is written as null
toJSON(x) == IF x = NaN THEN null ELSE x

----------------------------------------------------------------------------
(* Texts *)

WS == "_"
TERM == "."

\* words and characters of a piece
PieceWords(p) ==
    CASE p = "s" -> 3
      [] p = "B198" -> 198
      [] p = "B798" -> 798
      [] OTHER -> 1

PieceLen(p) ==
    CASE p = "s" -> 12
      [] p = "B198" -> 1000
      [] p = "B798" -> 4000
      [] OTHER -> 1

RECURSIVE TrimStart(_)
TrimStart(s) ==
    IF s # <<>> /\ Head(s) = WS THEN TrimStart(Tail(s)) ELSE s

RECURSIVE TrimEnd(_)
TrimEnd(s) ==
    IF s # <<>> /\ s[Len(s)] = WS THEN TrimEnd(SubSeq(s, 1, Len(s) - 1)) ELSE s

\* String.prototype.trim
trim(s) == TrimEnd(TrimStart(s))

\* number of characters of a string
RECURSIVE length(_)
length(s) == IF s = <<>> THEN 0 ELSE PieceLen(Head(s)) + length(Tail(s))

\* s.split(/\s+/).length: one more than the number of maximal whitespace
\* runs; the single spaces inside a run of words separate its words
RECURSIVE SplitWsCount(_, _)
SplitWsCount(s, inWs) ==
    IF s = <<>> THEN 1
    ELSE IF Head(s) = WS
         THEN (IF inWs THEN 0 ELSE 1) + SplitWsCount(Tail(s), TRUE)
         ELSE (PieceWords(Head(s)) - 1) + SplitWsCount(Tail(s), FALSE)

\* text.trim().split(/\s+/).length
WordCount(s) == SplitWsCount(trim(s), FALSE)

\* s.split(/(?<=[.!?])\s+/): cut at every whitespace run that directly
\* follows a terminator; the run is consumed, the terminator stays
RECURSIVE SplitAfterTerm(_, _, _)
SplitAfterTerm(s, cur, acc) ==
    IF s = <<>> THEN Append(acc, cur)
    ELSE IF Head(s) = WS /\ cur # <<>> /\ cur[Len(cur)] = TERM
         THEN SplitAfterTerm(TrimStart(s), <<>>, Append(acc, cur))
         ELSE SplitAfterTerm(Tail(s), Append(cur, Head(s)), acc)

RECURSIVE SelectLonger(_, _)
SelectLonger(segs, n) ==
    IF segs = <<>> THEN <<>>
    ELSE IF length(Head(segs)) > n
         THEN <<Head(segs)>> \o SelectLonger(Tail(segs), n)
         ELSE SelectLonger(Tail(segs), n)

\* text.split(...).map(s => s.trim()).filter(s => s.length > n)
Segment(s, n) ==
    LET parts == SplitAfterTerm(s, <<>>, <<>>)
    IN  SelectLonger([i \in 1..Len(parts) |-> trim(parts[i])], n)

----------------------------------------------------------------------------
(* Revisions and their configuration *)

Revisions == {"smart", "avg", "strict", "first", "single"}

\* the revisions whose /detect classifies sentence by sentence
LoopRevs == {"smart", "avg", "strict"}

\* const MAX_WORDS = 200 at the top of part_000 and of the strict revision
MAX_WORDS == 200
\* const HUMANIZER_MAX_WORDS = 200 of the avg revision
HUMANIZER_MAX_WORDS == 200
\* the constant MAX_WORDS = 800 local to /detect (smart and avg revisions)
DETECT_MAX_WORDS == 800

\* whether /humanize of revision r checks a word limit, and the limit
HumanizeLimited(r) == r \in {"smart", "avg", "strict"}
HumanizeMaxWords(r) == IF r = "avg" THEN HUMANIZER_MAX_WORDS ELSE MAX_WORDS

\* whether /detect of revision r checks a word limit, and the limit: the
\* strict revision compares with the file's MAX_WORDS = 200
DetectLimited(r) == r \in LoopRevs
DetectMaxWords(r) == IF r = "strict" THEN MAX_WORDS ELSE DETECT_MAX_WORDS

\* .filter(s => s.length > n)
MinLength(r) == IF r = "smart" THEN 12 ELSE 10

\* the judgment a sentence keeps when the provider call or the parse throws
DefaultJudgment(r) ==
    CASE r = "smart" ->
           [ai |-> 70, human |-> 30, reason |-> "Neutral structured sentence"]
      [] r = "avg" ->
           [ai |-> 50, human |-> 50, reason |-> "Balanced sentence"]
      [] OTHER ->
           [ai |-> 70, human |-> 30, reason |-> "Structured or neutral sentence"]

\* Highlight without the middle level
Highlight_TwoLevels(r, ai) ==
    IF r = "strict"
    THEN (IF GE(ai, 75) THEN "high" ELSE "low")
    ELSE (IF GE(ai, 70) THEN "high" ELSE "low")

\* highlight of a sentence
Highlight(r, ai) ==
    IF r = "strict"
    THEN (IF GE(ai, 75) THEN "high" ELSE IF GE(ai, 45) THEN "medium" ELSE "low")
    ELSE (IF GE(ai, 70) THEN "high" ELSE IF GE(ai, 40) THEN "medium" ELSE "low")

\* verdict of the overall score
Verdict(r, overallAI) ==
    IF r = "strict"
    THEN (IF GE(overallAI, 75) THEN "Likely AI-generated"
          ELSE IF GE(overallAI, 45) THEN "Possibly AI-generated"
          ELSE "Likely Human-written")
    ELSE (IF GE(overallAI, 70) THEN "Likely AI-generated"
          ELSE IF GE(overallAI, 35) THEN "Possibly AI-generated"
          ELSE "Likely Human-written")

----------------------------------------------------------------------------
(* Requests *)

\* req.body.text: a string, undefined (or another falsy value), or a truthy
\* value that is no string
Str(s) == [kind |-> "string", s |-> s]
Undefined == [kind |-> "undefined", s |-> <<>>]
NonString == [kind |-> "nonstring", s |-> <<>>]

SeqsUpTo(S, n) == UNION {[1..k -> S] : k \in 0..n}

FreeTexts == SeqsUpTo({WS, TERM, "s"}, MaxPieces)

\* texts around the word limits: a bulk run of 198 or 798 words and a tail
BoundaryTexts ==
    {<<b>> \o t : b \in {"B198", "B798"},
                  t \in SeqsUpTo({WS, TERM, "s"}, MaxTail)}

Texts == {Undefined, NonString} \cup {Str(s) : s \in FreeTexts \cup BoundaryTexts}

Bodies == [text : Texts, trusted_human : BOOLEAN]

NoBody == [text |-> Undefined, trusted_human |-> FALSE]

\* Validate without the comparison with the word limit
Validate_LimitUnchecked(text, limited, max) ==
    CASE text.kind = "undefined" -> "required"
      [] text.kind = "nonstring" -> "throws"
      [] text.s = <<>> \/ trim(text.s) = <<>> -> "required"
      [] OTHER -> "ok"

\* the validation every handler starts with:
\*   if (!text || !text.trim()) return 400; count the words; if over the
\*   limit return 400.  text.trim() of a value that is no string throws.
Validate(text, limited, max) ==
    CASE text.kind = "undefined" -> "required"
      [] text.kind = "nonstring" -> "throws"
      [] text.s = <<>> \/ trim(text.s) = <<>> -> "required"
      [] limited /\ WordCount(text.s) > max -> "limit"
      [] OTHER -> "ok"

\* the error message of a word-limit rejection
LimitError(rt, r) ==
    CASE rt = "humanize" /\ r = "avg" -> "Maximum 200 words allowed."
      [] rt = "detect" /\ r \in {"smart", "avg"} -> "Maximum 800 words allowed"
      [] OTHER -> "Word limit exceeded. Maximum 200 words allowed."

\* the response of a request that fails validation, or whose handler threw
ErrorResponse(rt, r, v) ==
    CASE v = "required" -> [status |-> 400, error |-> "Text is required"]
      [] v = "limit" -> [status |-> 400, error |-> LimitError(rt, r)]
      [] OTHER -> [status |-> 500,
                   error |-> IF rt = "humanize" THEN "Humanization failed"
                             ELSE "Detection failed"]

----------------------------------------------------------------------------
(* /detect, sentence by sentence (smart, avg and strict revisions) *)

\* the ai scores the provider is let to answer with
AiValues == {0, 50, 80, 100}

\* One provider call for one sentence ends in one of:
\*   "throws"    openai.responses.create rejects
\*   "notJSON"   JSON.parse throws (no output text, or text that is no JSON)
\*   "jsonNull"  JSON.parse returns null, and reading parsed.ai throws
\*   "object"    JSON.parse returns an object; a field it lacks is undefined
ClassifyOutcomes ==
    {[kind |-> k, ai |-> undefined, human |-> undefined, reason |-> "undefined"] :
        k \in {"throws", "notJSON", "jsonNull", "object"}}
    \cup {[kind |-> "object", ai |-> a, human |-> 100 - a,
           reason |-> "provider reason"] : a \in AiValues}

\* Judge with the parsed fields assigned even when the try block threw
Judge_LosesDefaults(r, sentence, o) ==
    [sentence |-> sentence,
     ai |-> o.ai,
     human |-> o.human,
     reason |-> o.reason,
     highlight |-> Highlight(r, o.ai)]

\* one pass of the loop body up to results.push: the defaults stay unless the
\* whole try block ran through
Judge(r, sentence, o) ==
    LET d == DefaultJudgment(r)
        ok == o.kind = "object"
        aiScore == IF ok THEN o.ai ELSE d.ai
    IN  [sentence |-> sentence,
         ai |-> aiScore,
         human |-> IF ok THEN o.human ELSE d.human,
         reason |-> IF ok THEN o.reason ELSE d.reason,
         highlight |-> Highlight(r, aiScore)]

\* const total = results.length || 1
Total(n) == IF n = 0 THEN 1 ELSE n

\* OverallSmart with the AI-dominant ratio compared by > instead of >=
OverallSmart_StrictRatio(aiH, mx, hu, n) ==
    LET total == Total(n)
    IN  IF 10 * hu >= 8 * total
        THEN Min(5, RoundDiv(10 * aiH, total))
        ELSE IF 10 * aiH > 6 * total
             THEN RoundDiv(70 * total + 30 * aiH, total)
             ELSE RoundDiv(aiH * 80 + mx * 50 + hu * 20, total)

\* OverallSmart with the AI-dominant score capped at 95
OverallSmart_Capped(aiH, mx, hu, n) ==
    LET total == Total(n)
    IN  IF 10 * hu >= 8 * total
        THEN Min(5, RoundDiv(10 * aiH, total))
        ELSE IF 10 * aiH >= 6 * total
             THEN Min(95, RoundDiv(70 * total + 30 * aiH, total))
             ELSE RoundDiv(aiH * 80 + mx * 50 + hu * 20, total)

\* OverallSmart without the mostly-human branch
OverallSmart_NoHumanBranch(aiH, mx, hu, n) ==
    LET total == Total(n)
    IN  IF 10 * aiH >= 6 * total
        THEN RoundDiv(70 * total + 30 * aiH, total)
        ELSE RoundDiv(aiH * 80 + mx * 50 + hu * 20, total)

\* the smart revision's overall score from the three counters; the ratios
\* human / total >= 0.8 and aiHeavy / total >= 0.6 are compared exactly
OverallSmart(aiH, mx, hu, n) ==
    LET total == Total(n)
    IN  IF 10 * hu >= 8 * total
        THEN Min(5, RoundDiv(10 * aiH, total))
        ELSE IF 10 * aiH >= 6 * total
             THEN RoundDiv(70 * total + 30 * aiH, total)
             ELSE RoundDiv(aiH * 80 + mx * 50 + hu * 20, total)

\* the array aiScores of the avg revision: one ai score per pushed result
AiScores(rs) == [i \in 1..Len(rs) |-> rs[i].ai]

\* aiScores.reduce((a, b) => a + b, 0)
RECURSIVE Sum(_)
Sum(xs) ==
    IF xs = <<>> THEN 0 ELSE Plus(Sum(SubSeq(xs, 1, Len(xs) - 1)), xs[Len(xs)])

\* the avg revision's overall score: the rounded mean, clipped to 10..95
OverallAvg(aiScores) ==
    LET avgAI == RoundDiv(Sum(aiScores), Len(aiScores))
    IN  IF LT(avgAI, 10) THEN 10
        ELSE IF GE(avgAI, 96) THEN 95
        ELSE avgAI

\* the strict revision's overall score: the rounded mean, 0 without results
OverallStrict(tot, n) == IF n # 0 THEN RoundDiv(tot, n) ELSE 0

OverallAI(r, rs, aiH, mx, hu, tot) ==
    CASE r = "smart" -> OverallSmart(aiH, mx, hu, Len(rs))
      [] r = "avg" -> OverallAvg(AiScores(rs))
      [] OTHER -> OverallStrict(tot, Len(rs))

\* the body of the 200 response of /detect as res.json writes it; the avg
\* revision sends no words_left
DetectResponse(r, wc, rs, aiH, mx, hu, tot) ==
    LET overallAI == OverallAI(r, rs, aiH, mx, hu, tot)
        overall == [ai_probability |-> toJSON(overallAI),
                    human_probability |-> toJSON(Minus(100, overallAI)),
                    verdict |-> Verdict(r, overallAI)]
    IN  IF r = "avg"
        THEN [status |-> 200, success |-> TRUE, words_used |-> wc,
              overall |-> overall, sentences |-> rs]
        ELSE [status |-> 200, success |-> TRUE, words_used |-> wc,
              words_left |-> DetectMaxWords(r) - wc,
              overall |-> overall, sentences |-> rs]

\* POST /detect up to its first await: validation and segmentation; a text
\* without a sentence long enough is answered at once
DetectRequest(bodies) ==
    /\ pc = "idle"
    /\ rev \in LoopRevs
    /\ \E b \in bodies :
        LET v == Validate(b.text, DetectLimited(rev), DetectMaxWords(rev))
        IN  /\ route' = "detect"
            /\ body' = b
            /\ IF v # "ok"
               THEN /\ res' = Append(res, ErrorResponse("detect", rev, v))
                    /\ pc' = "done"
                    /\ wordCount' = IF v = "limit" THEN WordCount(b.text.s)
                                    ELSE wordCount
                    /\ UNCHANGED sentences
               ELSE LET segs == Segment(b.text.s, MinLength(rev))
                        wc == WordCount(b.text.s)
                    IN  /\ wordCount' = wc
                        /\ sentences' = segs
                        /\ IF segs = <<>>
                           THEN /\ res' = Append(res,
                                       DetectResponse(rev, wc, <<>>, 0, 0, 0, 0))
                                /\ pc' = "done"
                           ELSE /\ res' = res
                                /\ pc' = "detect_loop"
    /\ UNCHANGED <<rev, results, aiHeavy, mixed, human, totalAI, calls,
                   inputs, providerFailed, output>>

\* one pass of the loop: the provider answers for the next sentence with o;
\* after the last sentence the handler aggregates and responds
Classify(outcomes) ==
    /\ pc = "detect_loop"
    /\ \E o \in outcomes :
        LET j == Judge(rev, sentences[Len(results) + 1], o)
            rs == Append(results, j)
            aiH == IF rev = "smart" /\ GE(j.ai, 70) THEN aiHeavy + 1 ELSE aiHeavy
            mx == IF rev = "smart" /\ ~GE(j.ai, 70) /\ GE(j.ai, 40)
                  THEN mixed + 1 ELSE mixed
            hu == IF rev = "smart" /\ ~GE(j.ai, 70) /\ ~GE(j.ai, 40)
                  THEN human + 1 ELSE human
            tot == IF rev = "strict" THEN Plus(totalAI, j.ai) ELSE totalAI
        IN  /\ calls' = calls + 1
            /\ inputs' = Append(inputs, sentences[Len(results) + 1])
            /\ providerFailed' = Append(providerFailed, o.kind # "object")
            /\ results' = rs
            /\ aiHeavy' = aiH
            /\ mixed' = mx
            /\ human' = hu
            /\ totalAI' = tot
            /\ IF Len(rs) = Len(sentences)
               THEN /\ res' = Append(res,
                           DetectResponse(rev, wordCount, rs, aiH, mx, hu, tot))
                    /\ pc' = "done"
               ELSE /\ res' = res
                    /\ pc' = pc
    /\ UNCHANGED <<rev, route, body, wordCount, sentences, output>>

----------------------------------------------------------------------------
(* /detect in one provider call (single revision) *)

\* The one provider call ends in one of: "throws" (the call rejects), "empty"
\* (no output text), "notJSON", "jsonNull" (reading a field of null throws),
\* "object" (the parsed object, passed on as it is)
DetectOutcomes ==
    {[kind |-> k, ai_probability |-> undefined, human_probability |-> undefined,
      verdict |-> "undefined"] :
        k \in {"throws", "empty", "notJSON", "jsonNull", "object"}}
    \cup {[kind |-> "object", ai_probability |-> 80, human_probability |-> 20,
           verdict |-> "Likely AI-generated"],
          [kind |-> "object", ai_probability |-> 60, human_probability |-> 60,
           verdict |-> "Mostly AI"]}

\* POST /detect of the single revision up to its await: no word limit
DetectSingleRequest(bodies) ==
    /\ pc = "idle"
    /\ rev = "single"
    /\ \E b \in bodies :
        LET v == Validate(b.text, FALSE, 0)
        IN  /\ route' = "detect"
            /\ body' = b
            /\ IF v # "ok"
               THEN /\ res' = Append(res, ErrorResponse("detect", rev, v))
                    /\ pc' = "done"
               ELSE /\ res' = res
                    /\ pc' = "detect_await"
    /\ UNCHANGED <<rev, wordCount, sentences, results, aiHeavy, mixed, human,
                   totalAI, calls, inputs, providerFailed, output>>

\* the provider's answer is parsed and passed on
DetectSingleReturn(outcomes) ==
    /\ pc = "detect_await"
    /\ \E o \in outcomes :
        /\ calls' = calls + 1
        /\ inputs' = Append(inputs, body.text.s)
        /\ res' = Append(res,
              CASE o.kind = "empty" ->
                     [status |-> 500, error |-> "No detection output"]
                [] o.kind = "object" ->
                     [status |-> 200, success |-> TRUE,
                      ai_probability |-> o.ai_probability,
                      human_probability |-> o.human_probability,
                      verdict |-> o.verdict]
                [] OTHER -> [status |-> 500, error |-> "Detection failed"])
        /\ pc' = "done"
    /\ UNCHANGED <<rev, route, body, wordCount, sentences, results, aiHeavy,
                   mixed, human, totalAI, providerFailed, output>>

----------------------------------------------------------------------------
(* /humanize *)

(* The rewritten text is a sequence of atoms: "." and " " are the two      *)
(* characters injectHumanNoise splits on, "," is the character it removes, *)
(* every other atom is a stretch of text without any of the three.         *)

fillers ==
    << <<"Honestly", ",">>,
       <<"In simple terms", ",">>,
       <<"Thats the thing-">>,
       <<"If you think about it", ",">>,
       <<"In day-to-day use", ",">>,
       <<>> >>

\* the endings of the first revision differ from those of the later ones
endings(r) ==
    IF r = "first"
    THEN << <<>>,
            <<" ", "And yeah", ",", " ", "it just works", ".">>,
            <<" ", "Nothing too fancy", ".">>,
            <<" ", "Its pretty straightforward", ".">>,
            <<>> >>
    ELSE << <<>>,
            <<" ", "It just works", ".">>,
            <<" ", "Nothing too fancy", ".">>,
            <<" ", "Pretty straightforward", ".">>,
            <<>> >>

\* text.split(". "): cut at every ". ", left to right
RECURSIVE SplitDot(_, _, _)
SplitDot(s, cur, acc) ==
    IF s = <<>> THEN Append(acc, cur)
    ELSE IF Len(s) >= 2 /\ s[1] = "." /\ s[2] = " "
         THEN SplitDot(SubSeq(s, 3, Len(s)), <<>>, Append(acc, cur))
         ELSE SplitDot(Tail(s), Append(cur, Head(s)), acc)

split(s) == SplitDot(s, <<>>, <<>>)

\* segs.join(". ")
RECURSIVE join(_)
join(segs) ==
    IF Len(segs) = 0 THEN <<>>
    ELSE IF Len(segs) = 1 THEN segs[1]
    ELSE segs[1] \o <<".", " ">> \o join(Tail(segs))

\* s.replaceAll(",", ""): every comma is removed
RECURSIVE replaceComma_All(_)
replaceComma_All(s) ==
    IF s = <<>> THEN <<>>
    ELSE IF Head(s) = "," THEN replaceComma_All(Tail(s))
    ELSE <<Head(s)>> \o replaceComma_All(Tail(s))

\* s.replace(",", ""): the first comma is removed
RECURSIVE replaceComma(_)
replaceComma(s) ==
    IF s = <<>> THEN <<>>
    ELSE IF Head(s) = "," THEN Tail(s)
    ELSE <<Head(s)>> \o replaceComma(Tail(s))

\* injectHumanNoise without the early return on fewer than 3 segments
injectHumanNoise_NoGuard(r, text, f, index, e) ==
    LET segs0 == split(text)
        start == fillers[f]
        segs1 == IF start # <<>>
                 THEN [segs0 EXCEPT ![1] = start \o <<" ">> \o segs0[1]]
                 ELSE segs0
        segs2 == [segs1 EXCEPT ![index] = replaceComma(segs1[index])]
    IN  join(segs2) \o endings(r)[e]

\* injectHumanNoise with its three random draws: the filler fillers[f], the
\* segment index (1-based here) and the ending endings[e]
injectHumanNoise(r, text, f, index, e) ==
    LET segs0 == split(text)
    IN  IF Len(segs0) < 3 THEN text
        ELSE LET start == fillers[f]
                 segs1 == IF start # <<>>
                          THEN [segs0 EXCEPT ![1] = start \o <<" ">> \o segs0[1]]
                          ELSE segs0
                 segs2 == [segs1 EXCEPT ![index] = replaceComma(segs1[index])]
             IN  join(segs2) \o endings(r)[e]

\* the values Math.random can take in injectHumanNoise(text): the filler,
\* the segment index and the ending; nothing is drawn past the early return,
\* for which one record stands
Draws(r, text) ==
    IF Len(split(text)) < 3
    THEN {[f |-> Len(fillers), index |-> 1, e |-> 1]}
    ELSE [f : 1..Len(fillers), index : 1..Len(split(text)),
          e : 1..Len(endings(r))]

\* the rewritten texts the provider is let to answer with
HumanizeOutputs ==
    { <<>>,
      <<"w", ",", "w", ".">>,
      <<"w", ".", " ", "w", ",", "w", ".", " ", "w">> }

\* The provider call of /humanize ends in "throws" (the call rejects),
\* "empty" (neither output_text nor output[0].content[0].text) or "text"
HumanizeOutcomes ==
    {[kind |-> "throws", text |-> <<>>], [kind |-> "empty", text |-> <<>>]}
    \cup {[kind |-> "text", text |-> t] : t \in HumanizeOutputs}

\* error.message of a rejected provider call
ProviderMessage == "provider error message"

\* error.message of text.trim() on a value that is no string
TypeErrorMessage == "text.trim is not a function"

\* the response of the catch block: the first revision adds the exception's
\* message
HumanizeFailure(r, message) ==
    IF r = "first"
    THEN [status |-> 500, error |-> "Humanization failed", details |-> message]
    ELSE [status |-> 500, error |-> "Humanization failed"]

\* POST /humanize up to its await: validation
HumanizeRequest(bodies) ==
    /\ pc = "idle"
    /\ \E b \in bodies :
        LET v == Validate(b.text, HumanizeLimited(rev), HumanizeMaxWords(rev))
        IN  /\ route' = "humanize"
            /\ body' = b
            /\ wordCount' = IF HumanizeLimited(rev) /\ v \in {"limit", "ok"}
                            THEN WordCount(b.text.s) ELSE wordCount
            /\ IF v # "ok"
               THEN /\ res' = Append(res,
                                IF v = "throws"
                                THEN HumanizeFailure(rev, TypeErrorMessage)
                                ELSE ErrorResponse("humanize", rev, v))
                    /\ pc' = "done"
               ELSE /\ res' = res
                    /\ pc' = "humanize_await"
    /\ UNCHANGED <<rev, sentences, results, aiHeavy, mixed, human, totalAI, calls,
                   inputs, providerFailed, output>>

\* the 200 response of /humanize; only the revisions with a word limit send
\* words_used and words_left
HumanizeResponse(r, wc, out) ==
    IF HumanizeLimited(r)
    THEN [status |-> 200, success |-> TRUE, humanized_text |-> out,
          words_used |-> wc, words_left |-> HumanizeMaxWords(r) - wc]
    ELSE [status |-> 200, success |-> TRUE, humanized_text |-> out]

\* the provider answers: extraction, noise injection, response
HumanizeReturn(outcomes) ==
    /\ pc = "humanize_await"
    /\ \E o \in outcomes :
        /\ calls' = calls + 1
        /\ inputs' = Append(inputs, body.text.s)
        /\ pc' = "done"
        /\ output' = IF o.kind = "throws" THEN output ELSE o.text
        /\ IF o.kind = "throws"
           THEN res' = Append(res, HumanizeFailure(rev, ProviderMessage))
           ELSE IF o.kind = "empty" \/ o.text = <<>>
           THEN res' = Append(res,
                    [status |-> 500,
                     error |-> IF rev = "first" THEN "No text generated"
                               ELSE "No output generated"])
           ELSE \E d \in Draws(rev, o.text) :
                    res' = Append(res,
                        HumanizeResponse(rev, wordCount,
                            injectHumanNoise(rev, o.text, d.f, d.index, d.e)))
    /\ UNCHANGED <<rev, route, body, wordCount, sentences, results, aiHeavy,
                   mixed, human, totalAI, providerFailed>>

----------------------------------------------------------------------------
(* Specification *)

Init ==
    /\ rev \in Revisions
    /\ pc = "idle"
    /\ route = "none"
    /\ body = NoBody
    /\ wordCount = 0
    /\ sentences = <<>>
    /\ results = <<>>
    /\ aiHeavy = 0
    /\ mixed = 0
    /\ human = 0
    /\ totalAI = 0
    /\ calls = 0
    /\ inputs = <<>>
    /\ providerFailed = <<>>
    /\ output = <<>>
    /\ res = <<>>

Next ==
    \/ HumanizeRequest(Bodies)
    \/ HumanizeReturn(HumanizeOutcomes)
    \/ DetectRequest(Bodies)
    \/ Classify(ClassifyOutcomes)
    \/ DetectSingleRequest(Bodies)
    \/ DetectSingleReturn(DetectOutcomes)

Spec == Init /\ [][Next]_vars

(* The aggregator specification: the smart revision, on texts of up to     *)
(* MaxSent sentences of 13 characters each.                                *)

RECURSIVE Repeat(_, _)
Repeat(s, k) == IF k = 0 THEN <<>> ELSE s \o Repeat(s, k - 1)

AggBodies ==
    {[text |-> Str(<<TERM>> \o Repeat(<<WS, "s", TERM>>, k)),
      trusted_human |-> FALSE] : k \in 0..MaxSent}

InitAgg == Init /\ rev = "smart"

NextAgg ==
    \/ DetectRequest(AggBodies)
    \/ Classify(ClassifyOutcomes)

SpecAgg == InitAgg /\ [][NextAgg]_vars

(* The loop specification: /detect of the smart revision alone, on every   *)
(* request body of the full specification and on texts of up to MaxLoop    *)
(* stretches that end in a terminator: two that make a sentence (13 and 25 *)
(* characters) and one that the filter drops (1 character).                *)

RECURSIVE JoinWs(_)
JoinWs(ss) ==
    IF ss = <<>> THEN <<>>
    ELSE IF Len(ss) = 1 THEN ss[1]
    ELSE ss[1] \o <<WS>> \o JoinWs(Tail(ss))

LoopBodies ==
    {[text |-> Str(JoinWs(ss)), trusted_human |-> FALSE] :
        ss \in SeqsUpTo({<<"s", TERM>>, <<"s", "s", TERM>>, <<TERM>>}, MaxLoop)}

NextLoop ==
    \/ DetectRequest(Bodies \cup LoopBodies)
    \/ Classify(ClassifyOutcomes)

SpecLoop == InitAgg /\ [][NextLoop]_vars

(* The noise specification: /humanize alone, in every revision, with the   *)
(* provider answering every text of up to MaxNoise atoms.                  *)

NoiseAtoms == {".", " ", ",", "w"}

NoiseBodies == {[text |-> Str(<<"s">>), trusted_human |-> FALSE]}

NoiseOutcomes ==
    {[kind |-> "throws", text |-> <<>>], [kind |-> "empty", text |-> <<>>]}
    \cup {[kind |-> "text", text |-> t] : t \in SeqsUpTo(NoiseAtoms, MaxNoise)}

NextNoise ==
    \/ HumanizeRequest(NoiseBodies)
    \/ HumanizeReturn(NoiseOutcomes)

SpecNoise == Init /\ [][NextNoise]_vars

----------------------------------------------------------------------------
(* Properties *)

\* a /detect request was answered with status 200
Detect200 == route = "detect" /\ res # <<>> /\ res[1].status = 200

\* the overall object of the response; the single revision sends its three
\* fields at the top level of the body
Overall ==
    IF rev = "single"
    THEN [ai_probability |-> res[1].ai_probability,
          human_probability |-> res[1].human_probability,
          verdict |-> res[1].verdict]
    ELSE res[1].overall

\* the sentences of a response that the spec's buckets count
HeavyCount(js) == Cardinality({i \in 1..Len(js) : GE(js[i].ai, 70)})
MixedCount(js) == Cardinality({i \in 1..Len(js) : GE(js[i].ai, 40) /\ ~GE(js[i].ai, 70)})
HumanCount(js) == Cardinality({i \in 1..Len(js) : ~GE(js[i].ai, 40)})

\* C1 (as stated): every 200 response of /detect carries two probabilities
\* that are numbers and add up to 100.
C1_SumIs100 ==
    Detect200 =>
        /\ IsNum(Overall.ai_probability)
        /\ IsNum(Overall.human_probability)
        /\ Overall.ai_probability + Overall.human_probability = 100

\* a 200 response of the smart revision's /detect
SmartDone == Detect200 /\ rev = "smart" /\ pc = "done"

\* C2: in the smart aggregator, when at least 60% of the judged sentences
\* have ai >= 70 the overall ai_probability is at least 70 (the mostly-human
\* branch does not take the case away).
C2_AiDominantAtLeast70 ==
    (SmartDone /\ 10 * HeavyCount(res[1].sentences)
                    >= 6 * Total(Len(res[1].sentences)))
        => res[1].overall.ai_probability >= 70

\* exactly three of five sentences are ai-heavy, the other two mixed: 88
C2_Witness ==
    /\ SmartDone
    /\ Len(res[1].sentences) = 5
    /\ HeavyCount(res[1].sentences) = 3
    /\ MixedCount(res[1].sentences) = 2
    /\ res[1].overall.ai_probability = 88

\* C3 (as stated): in the AI-dominant branch the overall ai_probability is
\* round(70 + ai_heavy/total * 30) capped at 95, so never above 95, and two
\* sentences scored 80 give 95.
C3_CappedAt95 ==
    LET js == res[1].sentences
        total == Total(Len(js))
    IN  (SmartDone /\ 10 * HeavyCount(js) >= 6 * total)
            => /\ res[1].overall.ai_probability
                    = Min(95, RoundDiv(70 * total + 30 * HeavyCount(js), total))
               /\ res[1].overall.ai_probability <= 95

\* C3 (amended): in the AI-dominant branch the overall ai_probability is
\* round(70 + ai_heavy/total * 30) without a cap, between 88 and 100, with
\* verdict "Likely AI-generated"; two sentences scored 80 give 100.
C3_UncappedEscalation ==
    LET js == res[1].sentences
        total == Total(Len(js))
    IN  (SmartDone /\ 10 * HeavyCount(js) >= 6 * total)
            => /\ res[1].overall.ai_probability
                    = RoundDiv(70 * total + 30 * HeavyCount(js), total)
               /\ res[1].overall.ai_probability \in 88..100
               /\ res[1].overall.verdict = "Likely AI-generated"
               /\ (Len(js) = 2 /\ js[1].ai = 80 /\ js[2].ai = 80)
                    => res[1].overall.ai_probability = 100

\* two sentences, both scored 80 by the provider: 100, "Likely AI-generated"
C3_Witness ==
    /\ SmartDone
    /\ Len(res[1].sentences) = 2
    /\ res[1].sentences[1].ai = 80
    /\ res[1].sentences[2].ai = 80
    /\ res[1].overall.ai_probability = 100
    /\ res[1].overall.verdict = "Likely AI-generated"

\* C4: in the smart aggregator, when at least 80% of the judged sentences
\* are human (not ai >= 40) the overall ai_probability is
\* min(5, round(ai_heavy/total * 10)) and at most 5; so it is when every
\* sentence of a non-empty set has ai < 40.
C4_MostlyHumanAtMost5 ==
    LET js == res[1].sentences
        total == Total(Len(js))
    IN  (SmartDone /\ 10 * HumanCount(js) >= 8 * total)
            => /\ res[1].overall.ai_probability
                    = Min(5, RoundDiv(10 * HeavyCount(js), total))
               /\ res[1].overall.ai_probability <= 5

\* four of five sentences human, one ai-heavy: round(0.2 * 10) = 2
C4_Witness ==
    /\ SmartDone
    /\ Len(res[1].sentences) = 5
    /\ HumanCount(res[1].sentences) = 4
    /\ HeavyCount(res[1].sentences) = 1
    /\ res[1].overall.ai_probability = 2

\* C5 (as stated): every 200 response of the sentence-by-sentence /detect
\* carries probabilities that are numbers in 0..100, also when no sentence
\* survives segmentation.
C5_InRange ==
    (Detect200 /\ rev \in LoopRevs)
        => /\ res[1].overall.ai_probability \in 0..100
           /\ res[1].overall.human_probability \in 0..100

\* the verdict the spec derives from an overall score
SpecVerdict(overallAI) ==
    IF GE(overallAI, 70) THEN "Likely AI-generated"
    ELSE IF GE(overallAI, 35) THEN "Possibly AI-generated"
    ELSE "Likely Human-written"

\* C6 (as stated): the verdict of an untrusted /detect request is "Likely
\* AI-generated" from 70 on, "Possibly AI-generated" from 35 to below 70 and
\* "Likely Human-written" otherwise, and no other label.
C6_VerdictThresholds ==
    (Detect200 /\ rev \in LoopRevs /\ ~body.trusted_human)
        => res[1].overall.verdict = SpecVerdict(res[1].overall.ai_probability)

\* C7 (as stated), for a text that holds a sentence to classify: a /detect
\* request with trusted_human = true makes no provider call and is answered
\* with the verdict "Human-written (Verified)".
C7_TrustedBypass ==
    (route = "detect" /\ body.trusted_human /\ (sentences # <<>> \/ rev = "single"))
        => /\ calls = 0
           /\ Detect200 => Overall.verdict = "Human-written (Verified)"

\* the text of the request is a string that is not empty after trimming
TextPresent == body.text.kind = "string" /\ trim(body.text.s) # <<>>

\* the request was answered with status 400
Rejected == res # <<>> /\ res[1].status = 400

\* the word limits the spec gives: 200 for /humanize, 800 for /detect
SpecMaxWords == IF route = "humanize" THEN 200 ELSE 800

\* the handler of the request compares the word count with a limit
HasWordLimit ==
    \/ route = "humanize" /\ rev \in {"smart", "avg", "strict"}
    \/ route = "detect" /\ rev \in {"smart", "avg", "strict"}

\* C8 (as stated), for the handlers that have a word limit: a text of exactly
\* the maximum number of words (200 for /humanize, 800 for /detect) is not
\* rejected, one of maximum + 1 words is rejected with 400, and a 200
\* response that carries words_left has words_left = maximum - words_used
\* >= 0.
C8_WordLimitBoundary ==
    (HasWordLimit /\ TextPresent)
        => /\ WordCount(body.text.s) = SpecMaxWords => ~Rejected
           /\ WordCount(body.text.s) = SpecMaxWords + 1 => Rejected
           /\ (res # <<>> /\ res[1].status = 200 /\ "words_left" \in DOMAIN res[1])
                => /\ res[1].words_left = SpecMaxWords - res[1].words_used
                   /\ res[1].words_left >= 0

\* the text of the request is missing or empty after trimming
TextMissing ==
    \/ body.text.kind = "undefined"
    \/ body.text.kind = "string" /\ trim(body.text.s) = <<>>

\* the limit of a handler that has one
WordLimit == IF route = "detect" /\ rev \in {"smart", "avg"} THEN 800 ELSE 200

\* the text of the request has more words than its handler allows
OverLimit == TextPresent /\ HasWordLimit /\ WordCount(body.text.s) > WordLimit

\* C9: a request whose text is missing or empty after trimming, or has more
\* words than its handler's limit, is answered with 400 in the step that
\* receives it: no provider call was made, and exactly one response is sent.
C9_RejectedBeforeProvider ==
    /\ Len(res) <= 1
    /\ Rejected => calls = 0
    /\ (route # "none" /\ (TextMissing \/ OverLimit))
        => /\ pc = "done"
           /\ Len(res) = 1
           /\ res[1].status = 400
           /\ calls = 0

\* a /detect request of 801 words to the smart revision was answered 400
C9_Witness ==
    /\ route = "detect"
    /\ rev = "smart"
    /\ OverLimit
    /\ WordCount(body.text.s) = 801
    /\ pc = "done"
    /\ Len(res) = 1
    /\ res[1].status = 400
    /\ calls = 0

\* a per-sentence /detect request that passed validation and has sentences
Classifying == route = "detect" /\ rev \in LoopRevs /\ sentences # <<>>

\* a failed provider call or parse neither aborts the request nor stops
\* the loop: no response before the last sentence, then a 200 response
\* with one judgment per sentence
NeverAborts ==
    Classifying
        => /\ Len(providerFailed) = Len(results)
           /\ pc = "detect_loop" => (res = <<>> /\ Len(results) < Len(sentences))
           /\ pc = "done"
                => /\ res[1].status = 200
                   /\ Len(res[1].sentences) = Len(sentences)
                   /\ \A i \in 1..Len(sentences) :
                        res[1].sentences[i].sentence = sentences[i]

\* C10 (as stated): a sentence whose provider call failed or whose output
\* did not parse receives ai=70, human=30, reason "Neutral structured
\* sentence"; the request is not aborted and ends in a 200 response with a
\* judgment for every segmented sentence.
C10_FixedDefault ==
    /\ NeverAborts
    /\ Classifying
        => \A i \in 1..Len(results) :
              providerFailed[i]
                => /\ results[i].ai = 70
                   /\ results[i].human = 30
                   /\ results[i].reason = "Neutral structured sentence"

\* C10 (amended): such a sentence receives the default judgment of the
\* revision that handles the request: ai=70, human=30, "Neutral structured
\* sentence" (part_000); ai=50, human=50, "Balanced sentence" (server.js,
\* first /detect); ai=70, human=30, "Structured or neutral sentence"
\* (server.js, second /detect); the request is not aborted and ends in a 200
\* response with a judgment for every segmented sentence.
C10_RevisionDefault ==
    /\ NeverAborts
    /\ Classifying
        => \A i \in 1..Len(results) :
              providerFailed[i]
                => /\ results[i].ai = IF rev = "avg" THEN 50 ELSE 70
                   /\ results[i].human = IF rev = "avg" THEN 50 ELSE 30
                   /\ results[i].reason =
                        CASE rev = "smart" -> "Neutral structured sentence"
                          [] rev = "avg" -> "Balanced sentence"
                          [] OTHER -> "Structured or neutral sentence"

\* the first of two provider calls failed, the second answered 80: a 200
\* response with the default judgment and then the provider's
C10_Witness ==
    /\ Classifying
    /\ pc = "done"
    /\ providerFailed = <<TRUE, FALSE>>
    /\ res[1].status = 200
    /\ Len(res[1].sentences) = 2
    /\ res[1].sentences[1].reason = "Neutral structured sentence"
    /\ res[1].sentences[1].ai = 70
    /\ res[1].sentences[2].ai = 80

\* the provider of /humanize was called and the request ended with status 500
HumanizeProviderFailed ==
    /\ route = "humanize"
    /\ calls = 1
    /\ res # <<>>
    /\ res[1].status = 500

\* C11: when the provider call of /humanize fails or returns no usable text,
\* the 500 response carries an error message and nothing else: no rewritten
\* text and no detail of the internal error
C11_GenericFailure ==
    HumanizeProviderFailed => DOMAIN res[1] = {"status", "error"}

\* a /humanize request was answered with status 200
Humanized == route = "humanize" /\ res # <<>> /\ res[1].status = 200

\* the positions of s where a "." is followed by a " ": splitting on ". "
\* yields one segment more than there are such positions
Separators(s) == {k \in 1..(Len(s) - 1) : s[k] = "." /\ s[k + 1] = " "}

\* C12: whenever the rewritten text has fewer than 3 segments between ". ",
\* injectHumanNoise returns it unchanged, whatever is drawn, and so does a
\* second application to the result
C12_ShortInputUnchanged ==
    Humanized /\ Cardinality(Separators(output)) < 2
        => /\ res[1].humanized_text = output
           /\ \A f \in 1..Len(fillers), e \in 1..Len(endings(rev)),
                 index \in 1..(Cardinality(Separators(output)) + 1) :
                   injectHumanNoise(rev, res[1].humanized_text, f, index, e)
                       = output

\* a text of two segments, the second with a comma, was sent back as it came
C12_Witness ==
    /\ Humanized
    /\ output = <<"w", ".", " ", ",", "w", ".">>
    /\ res[1].humanized_text = output

\* what may stand before the first segment: nothing, or a filler phrase and
\* a space
Prefixes ==
    {<<>>} \cup {fillers[i] \o <<" ">> : i \in {j \in 1..Len(fillers) :
                                                   fillers[j] # <<>>}}

\* what may stand after the last segment: nothing, or an ending phrase
EndingPhrases(r) == {endings(r)[i] : i \in 1..Len(endings(r))}

\* s without its p-th atom
Remove(s, p) == SubSeq(s, 1, p - 1) \o SubSeq(s, p + 1, Len(s))

\* the positions of the commas of s that are the first of their segment:
\* every earlier comma lies before a ". " that ends before the position
FirstCommas(s) ==
    {p \in 1..Len(s) :
        /\ s[p] = ","
        /\ \A q \in 1..(p - 1) :
              s[q] = "," => \E k \in Separators(s) : q < k /\ k + 1 < p}

\* C13: on a rewritten text of at least 3 segments, whatever is drawn, the
\* humanized text is the rewritten text with at most a filler phrase and a
\* space before it, at most an ending phrase after it and at most one comma
\* removed, which is the first comma of a segment of the text as it stands
\* with the filler; all else, the segments' order and the ". " between them
\* included, is as in the rewritten text
C13_OnlyPermittedDeltas ==
    Humanized /\ Cardinality(Separators(output)) >= 2
        => \E pre \in Prefixes, end \in EndingPhrases(rev) :
              LET whole == pre \o output
              IN  \/ res[1].humanized_text = whole \o end
                  \/ \E p \in FirstCommas(whole) :
                        res[1].humanized_text = Remove(whole, p) \o end

\* a text of three segments came back with a filler before it, with the comma
\* of its first segment removed and with an ending after it
C13_Witness ==
    /\ Humanized
    /\ output = <<",", "w", ".", " ", ".", " ">>
    /\ res[1].humanized_text =
          <<"Thats the thing-", " ", "w", ".", " ", ".", " ",
            " ", "Nothing too fancy", ".">>

\* a /detect request that passed validation: it is in its loop or was
\* answered with status 200
Validated == route = "detect" /\ (res = <<>> \/ res[1].status = 200)

\* the judgments of js with highlight h
Highlighted(js, h) == {i \in 1..Len(js) : js[i].highlight = h}

\* C14: for a /detect request of the bucketed handler that passed validation,
\* the provider was invoked once for each sentence judged so far, with the
\* sentences as input in their order; the i-th judgment is that of the i-th
\* sentence of the segmentation; the counters ai_heavy, mixed and human are
\* the numbers of judgments highlighted high, medium and low, so their sum
\* is the number of judgments; and the response carries these judgments,
\* one per segmented sentence, in the order of the sentences
C14_OnePerSentenceInOrder ==
    Validated
        => /\ sentences = Segment(body.text.s, 12)
           /\ calls = Len(results)
           /\ Len(results) <= Len(sentences)
           /\ inputs = SubSeq(sentences, 1, Len(results))
           /\ \A i \in 1..Len(results) : results[i].sentence = sentences[i]
           /\ aiHeavy = Cardinality(Highlighted(results, "high"))
           /\ mixed = Cardinality(Highlighted(results, "medium"))
           /\ human = Cardinality(Highlighted(results, "low"))
           /\ aiHeavy + mixed + human = Len(results)
           /\ pc = "done"
                => /\ calls = Len(sentences)
                   /\ res[1].sentences = results
                   /\ Len(res[1].sentences) = Len(sentences)

\* of three stretches the second was dropped; the two different sentences
\* left were judged, the first into the mixed bucket and the second into the
\* human bucket, and the response was sent
C14_Witness ==
    /\ Validated
    /\ pc = "done"
    /\ body.text.s = <<"s", "s", TERM, WS, TERM, WS, "s", TERM>>
    /\ sentences = << <<"s", "s", TERM>>, <<"s", TERM>> >>
    /\ inputs = sentences
    /\ res[1].sentences[1].sentence = sentences[1]
    /\ res[1].sentences[1].highlight = "medium"
    /\ res[1].sentences[2].sentence = sentences[2]
    /\ res[1].sentences[2].highlight = "low"
    /\ aiHeavy = 0 /\ mixed = 1 /\ human = 1

====
